---------------------------- MODULE Spec2Model ----------------------------
(***************************************************************************)
(* A model of the geometry utilities of athena (src/athena/geom.py and     *)
(* src/athena/geomview.py): decoding of strided Qt3D attribute buffers     *)
(* (iterAttr), packing of numpy arrays into attribute buffers              *)
(* (buildVertexAttrs), the grouper recipe, and the axis-aligned bounding   *)
(* box (AABB).                                                             *)
(*                                                                         *)
(* Python generators are modelled as records that are advanced by one      *)
(* next() call per action; bytes are naturals in 0..255; struct.unpack and *)
(* ndarray.tobytes are modelled as little-endian two's-complement          *)
(* conversions of the integer base types.                                  *)
(***************************************************************************)
EXTENDS Integers, Sequences, FiniteSets, TLC

VARIABLES
    buffers,    \* the Qt3DRender.QBuffer objects: a sequence of byte strings
    attrs,      \* the Qt3DRender.QAttribute objects: a sequence of records
    array,      \* the numpy array handed to buildVertexAttrs: [dtype, data]
    attrspecs,  \* the AttrSpec list handed to buildVertexAttrs
    pc,         \* what the caller has done so far
    it,         \* the generator object of the last iterAttr call
    grp,        \* the iterator returned by the last grouper call
    pts,        \* the points geom.allVertices() yields, handed to AABB
    aabb,       \* the AABB object constructed from pts
    cit,        \* the generator object of the last aabb.iterCorners call
    aabb2,      \* a second AABB object: built from the corners of aabb, or
                \* the target box of transformBetween
    last,       \* what a caller collected from the last finished iterAttr run
    transform,  \* the function returned by transformBetween
    mapped,     \* the last point handed to transform, and its image
    widget,     \* an AutoResizingStackedWidget and its pages
    seen        \* history of the widget's size policy updates

bufVars == <<buffers, attrs, array, attrspecs>>
boxVars == <<pts, aabb, cit, aabb2>>
tfVars == <<transform, mapped>>
widgetVars == <<widget, seen>>
vars == <<buffers, attrs, array, attrspecs, pc, it, grp, pts, aabb, cit, aabb2,
          last, transform, mapped, widget, seen>>

---------------------------------------------------------------------------
(* Bounds of the model *)

MaxBufLen == 6      \* longest raw buffer handed to iterAttr directly
MaxOffset == 2      \* largest byteOffset of such an attribute
MaxStride == 3      \* largest byteStride of such an attribute
MaxCount == 3       \* largest count of such an attribute
MaxVertexSize == 2  \* largest vertexSize of such an attribute
MaxRows == 2        \* most rows of an array handed to buildVertexAttrs
MaxCols == 2        \* most columns of such an array
MaxSeqLen == 5      \* longest sequence handed to grouper
MaxGroup == 3       \* largest group size n handed to grouper
MaxPoints == 3      \* most points of a geometry handed to AABB
MaxPages == 2       \* most pages of a stacked widget
MaxWidth == 2       \* largest size-hint width of a page
MaxIndices == 3     \* most elements of an index array

---------------------------------------------------------------------------
(* Small helpers of the host language *)

Min(a, b) == IF a <= b THEN a ELSE b
Max(a, b) == IF a >= b THEN a ELSE b

RECURSIVE Pow(_, _)
Pow(b, e) == IF e = 0 THEN 1 ELSE b * Pow(b, e - 1)

\* Python's s[a:b] for 0 <= a: the slice is silently clipped to the sequence
Slice(s, a, b) == SubSeq(s, a + 1, Min(b, Len(s)))

---------------------------------------------------------------------------
(* Base types: geom.py:21-36, geomview.py:21-36 *)

IntBaseTypes == {"Byte", "UnsignedByte", "Short", "UnsignedShort", "Int", "UnsignedInt"}

\* basetype_data[t][0]: the byte width
basetype_widths ==
    [t \in IntBaseTypes |->
        CASE t \in {"Byte", "UnsignedByte"} -> 1
          [] t \in {"Short", "UnsignedShort"} -> 2
          [] t \in {"Int", "UnsignedInt"} -> 4]

\* basetype_data[t][1]: the struct code
basetype_struct_codes ==
    [t \in IntBaseTypes |->
        CASE t = "Byte" -> "b" [] t = "UnsignedByte" -> "B"
          [] t = "Short" -> "h" [] t = "UnsignedShort" -> "H"
          [] t = "Int" -> "i" [] t = "UnsignedInt" -> "I"]

\* the lower-case struct codes are the signed ones
StructSigned(code) == code \in {"b", "h", "i"}

\* Value of `w` little-endian bytes as an unsigned number
RECURSIVE LEUnsigned(_)
LEUnsigned(bs) ==
    IF bs = <<>> THEN 0 ELSE Head(bs) + 256 * LEUnsigned(Tail(bs))

\* struct.unpack of one scalar with code `code` from exactly its width in
\* bytes (native order, little endian); two's complement for signed codes
UnpackScalar(code, bs) ==
    LET w == Len(bs)
        top == bs[w]
        low == LEUnsigned(SubSeq(bs, 1, w - 1))
    IN  IF StructSigned(code) /\ top >= 128
        THEN low + (top - 256) * Pow(256, w - 1)
        ELSE low + top * Pow(256, w - 1)

\* struct.unpack(code * n, bs): fails (struct.error) unless bs holds exactly
\* n scalars; otherwise the tuple of the n scalars at consecutive slots
UnpackOk(w, n, bs) == Len(bs) = w * n

Unpack(code, w, n, bs) ==
    [j \in 1..n |-> UnpackScalar(code, SubSeq(bs, (j - 1) * w + 1, j * w))]

\* ndarray.tobytes of one scalar of a `w`-byte integer dtype
RECURSIVE LEBytes(_, _)
LEBytes(u, w) ==
    IF w = 0 THEN <<>> ELSE <<u % 256>> \o LEBytes(u \div 256, w - 1)

PackScalar(v, w) ==
    IF v >= 0 THEN LEBytes(v, w)
    ELSE \* two's complement of v < 0: the bitwise NOT of the bytes of -v-1
         LET lo == LEBytes(-v - 1, w)
         IN  [j \in 1..w |-> 255 - lo[j]]

---------------------------------------------------------------------------
(* Python's range(start, stop, step) for step > 0, as a sequence *)

RangeLen(start, stop, step) ==
    IF stop <= start THEN 0 ELSE (stop - start + step - 1) \div step

PyRange(start, stop, step) ==
    [k \in 1..RangeLen(start, stop, step) |-> start + (k - 1) * step]

---------------------------------------------------------------------------
(* geom.iterAttr, geom.py:101-119.  A generator object is the record      *)
(*   [impl, att, k, state, out]: the attribute it was called with (an     *)
(*   index into attrs, i.e. a reference to the QAttribute object), the    *)
(*   number of next() calls that yielded, "created" | "running" | "done"  *)
(*   | "error" (struct.error propagated out of the generator), and the    *)
(*   tuples yielded so far.                                               *)

\* A faulty call that resumes where the previous generator stopped
NewGen_resumed(impl, att) ==
    [impl |-> impl, att |-> att, k |-> it.k, state |-> "created", out |-> <<>>]

NewGen(impl, att) ==
    [impl |-> impl, att |-> att, k |-> 0, state |-> "created", out |-> <<>>]

NoGen == [impl |-> "none", att |-> 0, k |-> 0, state |-> "done", out |-> <<>>]

\* geom.py:104, 113-114: a zero byteStride is replaced by the base type width
iterAttr_byteStride(att) ==
    IF att.byteStride = 0 THEN basetype_widths[att.vertexBaseType]
    ELSE att.byteStride

\* geom.py:115-116: a zero vertexSize is replaced by 1
iterAttr_vertex_size(att) ==
    IF att.vertexSize = 0 THEN 1 ELSE att.vertexSize

\* A faulty loop that starts at byte 0 instead of byteOffset
iterAttr_range_noOffset(att, stride) ==
    PyRange(0, stride * att.count, stride)

\* geom.py:117: the byte positions the for loop visits
iterAttr_range(att, stride) ==
    PyRange(att.byteOffset, att.byteOffset + stride * att.count, stride)

\* geom.py:118: the bytes handed to struct.unpack for the element at byte i
iterAttr_slice(att, i, vs) ==
    Slice(buffers[att.buffer], i, i + basetype_widths[att.vertexBaseType] * vs)

\* One next() call on a generator of geom.iterAttr
iterAttr_next(g) ==
    LET att == attrs[g.att]
        width == basetype_widths[att.vertexBaseType]
        code == basetype_struct_codes[att.vertexBaseType]
        stride == iterAttr_byteStride(att)
        vs == iterAttr_vertex_size(att)
        rng == iterAttr_range(att, stride)
    IN  IF g.k >= Len(rng)
        THEN [g EXCEPT !.state = "done"]
        ELSE LET bs == iterAttr_slice(att, rng[g.k + 1], vs)
             IN  IF UnpackOk(width, vs, bs)
                 THEN [g EXCEPT !.state = "running", !.k = g.k + 1,
                                !.out = Append(g.out, Unpack(code, width, vs, bs))]
                 ELSE [g EXCEPT !.state = "error"]

---------------------------------------------------------------------------
(* geomview.iterAttr, geomview.py:38-55 *)

\* geomview.py:51-52: a zero vertexSize is replaced by the base type width
view_iterAttr_vertex_size(att) ==
    IF att.vertexSize = 0 THEN basetype_widths[att.vertexBaseType]
    ELSE att.vertexSize

\* A faulty slice that steps one byte, not one scalar, per component
view_iterAttr_slice_byteStep(att, i, j) ==
    Slice(buffers[att.buffer], i + j, i + j + basetype_widths[att.vertexBaseType])

\* geomview.py:54: the bytes of component j (0-based) of the element at byte i
view_iterAttr_slice(att, i, j) ==
    LET width == basetype_widths[att.vertexBaseType]
    IN  Slice(buffers[att.buffer], i + j * width, i + j * width + width)

\* One next() call on a generator of geomview.iterAttr: the list
\* comprehension unpacks the components one by one and fails on the first
\* short slice
view_iterAttr_next(g) ==
    LET att == attrs[g.att]
        width == basetype_widths[att.vertexBaseType]
        code == basetype_struct_codes[att.vertexBaseType]
        stride == iterAttr_byteStride(att)
        vs == view_iterAttr_vertex_size(att)
        rng == iterAttr_range(att, stride)
    IN  IF g.k >= Len(rng)
        THEN [g EXCEPT !.state = "done"]
        ELSE LET i == rng[g.k + 1]
                 ok == \A j \in 0..(vs - 1) :
                          UnpackOk(width, 1, view_iterAttr_slice(att, i, j))
                 datum == [j \in 1..vs |->
                             UnpackScalar(code, view_iterAttr_slice(att, i, j - 1))]
             IN  IF ok
                 THEN [g EXCEPT !.state = "running", !.k = g.k + 1,
                                !.out = Append(g.out, datum)]
                 ELSE [g EXCEPT !.state = "error"]


---------------------------------------------------------------------------
(* geom.buildVertexAttrs, geom.py:39-78 *)

\* The numpy scalar types of the model; "int64" (numpy's default integer)
\* has no struct code in basetype_struct_codes, so it is no key of
\* basetype_numpy_codes_reverse
DTypes == {"int8", "uint8", "int16", "uint16", "int32", "int64"}

\* geom.py:42: np.sctypeDict[struct code] -> base type
basetype_numpy_codes_reverse ==
    [d \in {"int8", "uint8", "int16", "uint16", "int32", "uint32"} |->
        CASE d = "int8" -> "Byte" [] d = "uint8" -> "UnsignedByte"
          [] d = "int16" -> "Short" [] d = "uint16" -> "UnsignedShort"
          [] d = "int32" -> "Int" [] d = "uint32" -> "UnsignedInt"]

\* Concatenation of a sequence of sequences
RECURSIVE Flatten(_)
Flatten(ss) == IF ss = <<>> THEN <<>> ELSE Head(ss) \o Flatten(Tail(ss))

\* A faulty serialisation in column-major (Fortran) order
tobytes_columnMajor(data, w) ==
    Flatten([c \in 1..Len(data[1]) |->
               Flatten([r \in 1..Len(data) |-> PackScalar(data[r][c], w)])])

\* geom.py:61: array.tobytes(), the scalars in row-major (C) order
tobytes(data, w) ==
    Flatten([r \in 1..Len(data) |->
               Flatten([c \in 1..Len(data[r]) |-> PackScalar(data[r][c], w)])])

\* A faulty attribute whose byteOffset counts columns instead of bytes
VertexAttr_columnOffset(asp, basetype, basetype_width, row_width, rows, qbuffer) ==
    [name |-> asp.name,
     vertexBaseType |-> basetype,
     vertexSize |-> asp.numcols,
     attributeType |-> "VertexAttribute",
     buffer |-> qbuffer,
     byteStride |-> row_width,
     byteOffset |-> asp.column,
     count |-> rows]

\* geom.py:68-76: the QAttribute built for one AttrSpec
VertexAttr(asp, basetype, basetype_width, row_width, rows, qbuffer) ==
    [name |-> asp.name,
     vertexBaseType |-> basetype,
     vertexSize |-> asp.numcols,
     attributeType |-> "VertexAttribute",
     buffer |-> qbuffer,
     byteStride |-> row_width,
     byteOffset |-> asp.column * basetype_width,
     count |-> rows]

\* geom.py:57
RowWidth(columns, basetype_width) == columns * basetype_width

\* The exception buildVertexAttrs raises on this input, or "" if it returns:
\* array[0] of an array without rows (geom.py:54), or a dtype that is no key
\* of basetype_numpy_codes_reverse (geom.py:55)
buildVertexAttrs_raises(arr) ==
    IF Len(arr.data) = 0 THEN "IndexError"
    ELSE IF arr.dtype \notin DOMAIN basetype_numpy_codes_reverse THEN "KeyError"
    ELSE ""

\* The list buildVertexAttrs returns when the new QBuffer is buffers[qbuffer]
buildVertexAttrs_attrs(arr, specs, qbuffer) ==
    LET rows == Len(arr.data)
        columns == Len(arr.data[1])
        basetype == basetype_numpy_codes_reverse[arr.dtype]
        basetype_width == basetype_widths[basetype]
        row_width == RowWidth(columns, basetype_width)
    IN  [n \in 1..Len(specs) |->
            VertexAttr(specs[n], basetype, basetype_width, row_width, rows, qbuffer)]

---------------------------------------------------------------------------
(* geom.buildIndexAttr, geom.py:81-98.  An index array is flat: the record *)
(* [dtype, data] with data the sequence of its elements.                   *)

\* Qt3DRender.QAttribute(parent): the fields of a new attribute (Qt3D's
\* defaults); buildIndexAttr sets four of them and leaves the others
QAttribute_new ==
    [name |-> "",
     vertexBaseType |-> "Float",
     vertexSize |-> 1,
     attributeType |-> "VertexAttribute",
     buffer |-> 0,
     byteStride |-> 0,
     byteOffset |-> 0,
     count |-> 0]

\* geom.py:95: array.size of a flat array
array_size(arr) == Len(arr.data)

\* geom.py:83: a dtype that is no key of basetype_numpy_codes_reverse
buildIndexAttr_raises(arr) ==
    IF arr.dtype \notin DOMAIN basetype_numpy_codes_reverse THEN "KeyError"
    ELSE ""

\* geom.py:87: array.tobytes() of a flat array, its elements in order
buildIndexAttr_rawstring(arr) ==
    tobytes(<<arr.data>>, basetype_widths[basetype_numpy_codes_reverse[arr.dtype]])

\* A faulty attribute whose count is the number of bytes of the array
buildIndexAttr_attr_byteCount(arr, qbuffer) ==
    [QAttribute_new EXCEPT
        !.vertexBaseType = basetype_numpy_codes_reverse[arr.dtype],
        !.attributeType = "IndexAttribute",
        !.buffer = qbuffer,
        !.count = array_size(arr)
                    * basetype_widths[basetype_numpy_codes_reverse[arr.dtype]]]

\* geom.py:92-96: the attribute returned when the new QBuffer is
\* buffers[qbuffer]
buildIndexAttr_attr(arr, qbuffer) ==
    [QAttribute_new EXCEPT
        !.vertexBaseType = basetype_numpy_codes_reverse[arr.dtype],
        !.attributeType = "IndexAttribute",
        !.buffer = qbuffer,
        !.count = array_size(arr)]

---------------------------------------------------------------------------
(* geom.grouper, geom.py:121-124: itertools.zip_longest over n references  *)
(* to ONE iterator iter(i).  The zip_longest object is the record          *)
(*   [src, pos, n, slots, numactive, state, out]: the sequence behind the  *)
(*   shared iterator and how many of its items were consumed, the group    *)
(*   size, which argument slots still hold the iterator (an exhausted slot *)
(*   is replaced by the fill value), the number of such slots, and the     *)
(*   groups yielded so far.                                                *)

\* zip_longest's default fillvalue None, as a number that is no item of any
\* sequence of the model
PAD == -1

NoGrouper ==
    [src |-> <<>>, pos |-> 0, n |-> 0, slots |-> <<>>, numactive |-> 0,
     state |-> "none", out |-> <<>>]

\* geom.py:123-124
grouper(i, n) ==
    [src |-> i, pos |-> 0, n |-> n, slots |-> [k \in 1..n |-> TRUE],
     numactive |-> n, state |-> "created", out |-> <<>>]

\* The argument loop of one zip_longest next() call, from slot k on, with
\* the result tuple built so far
RECURSIVE zip_longest_fill(_, _, _)
zip_longest_fill(z, k, result) ==
    IF k > z.n
    THEN [z EXCEPT !.state = "running", !.out = Append(z.out, result)]
    ELSE IF ~z.slots[k]
    THEN zip_longest_fill(z, k + 1, Append(result, PAD))
    ELSE IF z.pos < Len(z.src)
    THEN zip_longest_fill([z EXCEPT !.pos = z.pos + 1], k + 1,
                          Append(result, z.src[z.pos + 1]))
    ELSE IF z.numactive = 1
    THEN [z EXCEPT !.numactive = 0, !.state = "done"]
    ELSE zip_longest_fill([z EXCEPT !.numactive = z.numactive - 1,
                                    !.slots[k] = FALSE],
                          k + 1, Append(result, PAD))

\* A faulty grouper built on zip: it stops at the first exhausted argument
\* and drops the incomplete group
RECURSIVE zip_fill(_, _, _)
zip_fill(z, k, result) ==
    IF k > z.n
    THEN [z EXCEPT !.state = "running", !.out = Append(z.out, result)]
    ELSE IF z.pos < Len(z.src)
    THEN zip_fill([z EXCEPT !.pos = z.pos + 1], k + 1,
                  Append(result, z.src[z.pos + 1]))
    ELSE [z EXCEPT !.numactive = 0, !.state = "done"]

zip_next(z) ==
    IF z.n = 0 \/ z.numactive = 0
    THEN [z EXCEPT !.state = "done"]
    ELSE zip_fill(z, 1, <<>>)

\* One next() call on the zip_longest object
zip_longest_next(z) ==
    IF z.n = 0 \/ z.numactive = 0
    THEN [z EXCEPT !.state = "done"]
    ELSE zip_longest_fill(z, 1, <<>>)

---------------------------------------------------------------------------
(* geomview.grouper, geomview.py:57-59: iter(callable, sentinel) where the *)
(* callable is list(itertools.islice(iter(i), n)) and the sentinel is [].  *)
(* The iterator object is the record [kind, src, pos, n, state, out]:      *)
(* kind "iterator" is a one-shot iterator i, for which iter(i) is i itself *)
(* and pos counts the items consumed; kind "list" is a container, for      *)
(* which every iter(i) starts again at the first item.                     *)

view_grouper(kind, i, n) ==
    [kind |-> kind, src |-> i, pos |-> 0, n |-> n, state |-> "created",
     out |-> <<>>]

\* list(itertools.islice(iter(i), n)): up to n items from where iter(i) starts
view_grouper_islice(z) ==
    LET start == IF z.kind = "list" THEN 0 ELSE z.pos
    IN  SubSeq(z.src, start + 1, Min(start + z.n, Len(z.src)))

\* A faulty step that ends at the first group of fewer than n items
view_grouper_next_dropShort(z) ==
    LET items == view_grouper_islice(z)
    IN  IF Len(items) < z.n \/ items = <<>>
        THEN [z EXCEPT !.state = "done"]
        ELSE [z EXCEPT !.state = "running", !.out = Append(z.out, items),
                       !.pos = IF z.kind = "list" THEN 0 ELSE z.pos + Len(items)]

\* One next() call: the callable's result ends the iteration if it equals
\* the sentinel [], and is yielded otherwise
view_grouper_next(z) ==
    LET items == view_grouper_islice(z)
    IN  IF items = <<>>
        THEN [z EXCEPT !.state = "done"]
        ELSE [z EXCEPT !.state = "running", !.out = Append(z.out, items),
                       !.pos = IF z.kind = "list" THEN 0 ELSE z.pos + Len(items)]

---------------------------------------------------------------------------
(* QVector3D (vec3d, geom.py:8) stores single-precision floats.  Numbers   *)
(* of the model are integers; F32 is the IEEE round-to-nearest-even        *)
(* conversion of an integer to the nearest float32 (24-bit significand).   *)

Abs(x) == IF x < 0 THEN -x ELSE x

TwoTo24 == 16777216

\* The spacing of float32 values at magnitude m: the least power of two q
\* with m < 2^24 * q
RECURSIVE Ulp(_, _)
Ulp(m, q) == IF m < TwoTo24 * q THEN q ELSE Ulp(m, 2 * q)

F32(x) ==
    LET m == Abs(x)
        q == Ulp(m, 1)
        lo == (m \div q) * q
        rem == m - lo
        r == IF 2 * rem < q THEN lo
             ELSE IF 2 * rem > q THEN lo + q
             ELSE IF (lo \div q) % 2 = 0 THEN lo ELSE lo + q
    IN  IF x < 0 THEN -r ELSE r

\* vec3d(x, y, z)
vec3d(x, y, z) == <<F32(x), F32(y), F32(z)>>

---------------------------------------------------------------------------
(* geom.AABB, geom.py:155-190.  An AABB object is the record               *)
(*   [min, max, center2]; center2 holds the components of min + max, i.e.  *)
(*   twice the center (halving a float32 is exact).                        *)

NoBox == [min |-> <<>>, max |-> <<>>, center2 |-> <<>>]

\* A faulty fold that stores the point's y instead of the smaller y
AABB_foldMin_overwriteY(mn, v) ==
    <<F32(Min(mn[1], v[1])), F32(v[2]), F32(Min(mn[3], v[3]))>>

\* geom.py:171-173: self.min.setX(min(self.min.x(), v[0])), ... ; the setter
\* stores a float32
AABB_foldMin(mn, v) ==
    <<F32(Min(mn[1], v[1])), F32(Min(mn[2], v[2])), F32(Min(mn[3], v[3]))>>

\* A faulty fold whose setZ compares with v[1] instead of v[2]
AABB_foldMax_wrongIndex(mx, v) ==
    <<F32(Max(mx[1], v[1])), F32(Max(mx[2], v[2])), F32(Max(mx[3], v[2]))>>

\* geom.py:174-176
AABB_foldMax(mx, v) ==
    <<F32(Max(mx[1], v[1])), F32(Max(mx[2], v[2])), F32(Max(mx[3], v[3]))>>

\* geom.py:170-176: the for loop over the points after the first, from
\* point k on
RECURSIVE AABB_loop(_, _, _)
AABB_loop(box, points, k) ==
    IF k > Len(points) THEN box
    ELSE AABB_loop([box EXCEPT !.min = AABB_foldMin(box.min, points[k]),
                               !.max = AABB_foldMax(box.max, points[k])],
                   points, k + 1)

\* geom.py:177: (self.min + self.max) / 2.0, kept as min + max
AABB_center2(mn, mx) ==
    <<F32(mn[1] + mx[1]), F32(mn[2] + mx[2]), F32(mn[3] + mx[3])>>

\* geom.py:167: next(it) on an iterator without points raises StopIteration
AABB_raises(points) ==
    IF points = <<>> THEN "StopIteration" ELSE ""

\* geom.py:167-177: AABB.__init__ on an iterator that yields `points` (one
\* at least)
AABB_init(points) ==
    LET v0 == points[1]
        mn == vec3d(v0[1], v0[2], v0[3])
        box == AABB_loop([min |-> mn, max |-> mn, center2 |-> <<>>], points, 2)
    IN  [box EXCEPT !.center2 = AABB_center2(box.min, box.max)]

\* geom.py:179-186: AABB.iterCorners.  The generator object is the record
\* [k, state, out]; the three nested loops visit k = 0..7 with x slowest
NewCorners == [k |-> 0, state |-> "created", out |-> <<>>]

NoCorners == [k |-> 0, state |-> "none", out |-> <<>>]

\* Faulty nested loops with z outermost and x innermost
iterCorners_point_zSlowest(box, k) ==
    LET x == IF k % 2 = 0 THEN box.min[1] ELSE box.max[1]
        y == IF (k \div 2) % 2 = 0 THEN box.min[2] ELSE box.max[2]
        z == IF (k \div 4) % 2 = 0 THEN box.min[3] ELSE box.max[3]
    IN  vec3d(x, y, z)

\* Faulty loops whose innermost one runs over [min.z, min.z]
iterCorners_point_minZ(box, k) ==
    LET x == IF (k \div 4) % 2 = 0 THEN box.min[1] ELSE box.max[1]
        y == IF (k \div 2) % 2 = 0 THEN box.min[2] ELSE box.max[2]
    IN  vec3d(x, y, box.min[3])

\* the k-th (0-based) point of the nested loops over [min, max] per axis
iterCorners_point(box, k) ==
    LET x == IF (k \div 4) % 2 = 0 THEN box.min[1] ELSE box.max[1]
        y == IF (k \div 2) % 2 = 0 THEN box.min[2] ELSE box.max[2]
        z == IF k % 2 = 0 THEN box.min[3] ELSE box.max[3]
    IN  vec3d(x, y, z)

\* One next() call on a generator of iterCorners
iterCorners_next(box, g) ==
    IF g.k >= 8 THEN [g EXCEPT !.state = "done"]
    ELSE [g EXCEPT !.state = "running", !.k = g.k + 1,
                   !.out = Append(g.out, iterCorners_point(box, g.k))]

\* list(box.iterCorners()): the generator run to its end
RECURSIVE iterCorners_run(_, _)
iterCorners_run(box, g) ==
    IF g.state = "done" THEN g.out
    ELSE iterCorners_run(box, iterCorners_next(box, g))

---------------------------------------------------------------------------
(* Exact arithmetic for transformBetween.  The floats of numpy are         *)
(* modelled as rationals <<numerator, denominator>> in lowest terms with a *)
(* positive denominator; rounding errors of float64 are not modelled.      *)

RECURSIVE GCD(_, _)
GCD(a, b) == IF b = 0 THEN a ELSE GCD(b, a % b)

Rat(n, d) ==
    LET g == GCD(Abs(n), Abs(d))
        sgn == IF d < 0 THEN -1 ELSE 1
    IN  <<(sgn * n) \div g, (sgn * d) \div g>>

FromInt(n) == <<n, 1>>

\* common factors are cancelled before multiplying, to keep the terms small
RNeg(a) == <<-a[1], a[2]>>
RAdd(a, b) ==
    LET g == GCD(a[2], b[2])
    IN  Rat(a[1] * (b[2] \div g) + b[1] * (a[2] \div g), (a[2] \div g) * b[2])
RSub(a, b) == RAdd(a, RNeg(b))
RMul(a, b) ==
    LET g1 == GCD(Abs(a[1]), b[2])
        g2 == GCD(Abs(b[1]), a[2])
    IN  Rat((a[1] \div g1) * (b[1] \div g2), (a[2] \div g2) * (b[2] \div g1))
RDiv(a, b) == RMul(a, Rat(b[2], b[1]))

\* sum of the products u[i] * v[i]
RECURSIVE RDot(_, _)
RDot(u, v) ==
    IF u = <<>> THEN FromInt(0)
    ELSE RAdd(RMul(Head(u), Head(v)), RDot(Tail(u), Tail(v)))

\* an array is a sequence held element by element, as numpy holds it
Array(f) == f \o <<>>

\* column j of a matrix given as a sequence of rows
Column(M, j) == Array([k \in 1..Len(M) |-> M[k][j]])

\* the elements of a set of numbers in increasing order
RECURSIVE SortedSeq(_)
SortedSeq(S) ==
    IF S = {} THEN <<>>
    ELSE LET m == CHOOSE x \in S : \A y \in S : x <= y
         IN  <<m>> \o SortedSeq(S \ {m})

\* Gauss-Jordan elimination of the augmented matrix M = [N | B], N square,
\* symmetric and positive definite (so every pivot is non-zero), from pivot
\* p on; the result is [I | N^-1 B]
RECURSIVE Eliminate(_, _)
Eliminate(M, p) ==
    IF p > Len(M) THEN M
    ELSE LET pivotRow == Array([j \in 1..Len(M[p]) |-> RDiv(M[p][j], M[p][p])])
             reduced == Array([i \in 1..Len(M) |->
                           IF i = p THEN pivotRow
                           ELSE Array([j \in 1..Len(M[i]) |->
                                   RSub(M[i][j], RMul(M[i][p], pivotRow[j]))])])
         IN  Eliminate(reduced, p + 1)

\* np.linalg.lstsq(X, Y, rcond=None)[0] for the matrices of transformBetween
\* (geom.py:231): the A of least norm among those that minimise |XA - Y|.
\* X holds the eight corners of a box and a column of ones: its non-constant
\* columns and the ones column are linearly independent, and a constant
\* column is a multiple m of the ones column.  So A is the solution of the
\* normal equations over the non-constant columns and the ones column, and
\* the coefficient b of the ones column is spread over the constant columns
\* in proportion to their multiples m (the least-norm choice): b*m / sum(m^2).
lstsq(X, Y) ==
    LET n == Len(X[1])
        constant == {i \in 1..n : \A k \in 1..Len(X) : X[k][i] = X[1][i]}
        free == SortedSeq((1..n) \ constant)
        r == Len(free) + 1
        \* the reduced design matrix: the free columns, then the ones
        D == Array([k \in 1..Len(X) |->
                Array([c \in 1..r |->
                    IF c < r THEN X[k][free[c]] ELSE FromInt(1)])])
        N == Array([a \in 1..r |->
                Array([b \in 1..r |-> RDot(Column(D, a), Column(D, b))])])
        B == Array([a \in 1..r |->
                Array([j \in 1..Len(Y[1]) |-> RDot(Column(D, a), Column(Y, j))])])
        solved == Eliminate(Array([a \in 1..r |-> N[a] \o B[a]]), 1)
        Z == Array([a \in 1..r |-> SubSeq(solved[a], r + 1, r + Len(Y[1]))])
        multiples == Array([i \in 1..Len(SortedSeq(constant)) |->
                              X[1][SortedSeq(constant)[i]]])
        norm2 == RDot(multiples, multiples)
        position(i) == CHOOSE c \in 1..Len(free) : free[c] = i
    IN  Array([i \in 1..n |->
            Array([j \in 1..Len(Y[1]) |->
                IF i \in constant
                THEN RDiv(RMul(Z[r][j], X[1][i]), norm2)
                ELSE Z[position(i)][j]])])

---------------------------------------------------------------------------
(* geom.transformBetween(aabb1, aabb2), geom.py:192-235, and               *)
(* AABB.dimensions; aabb1 is boxFrom and aabb2 is boxTo here              *)

\* geom.py:188-190: self.max - self.min, a QVector3D
dimensions(box) ==
    <<F32(box.max[1] - box.min[1]), F32(box.max[2] - box.min[2]),
      F32(box.max[3] - box.min[3])>>

\* geom.py:201-202: the corners with cons = np.array, an 8 x 3 array
np_coords_from_aabb(box) ==
    Array([k \in 1..8 |->
        << FromInt(IF ((k - 1) \div 4) % 2 = 0 THEN box.min[1] ELSE box.max[1]),
           FromInt(IF ((k - 1) \div 2) % 2 = 0 THEN box.min[2] ELSE box.max[2]),
           FromInt(IF (k - 1) % 2 = 0 THEN box.min[3] ELSE box.max[3]) >>])

\* geom.py:207
all_zero(x) == \A k \in 1..Len(x) : x[k] = FromInt(0)

\* geom.py:208: both boxes are flat in Z
bothFlat(boxFrom, boxTo) ==
    /\ all_zero(Column(np_coords_from_aabb(boxTo), 3))
    /\ all_zero(Column(np_coords_from_aabb(boxFrom), 3))

\* geom.py:212-213: a division of Python floats raises ZeroDivisionError when
\* the divisor is 0.0
transformBetween_raises(boxFrom, boxTo) ==
    IF bothFlat(boxFrom, boxTo)
       /\ (dimensions(boxFrom)[1] = 0 \/ dimensions(boxFrom)[2] = 0)
    THEN "ZeroDivisionError"
    ELSE ""

\* A faulty ratio that takes the X scale alone
flat_ratio_xOnly(boxFrom, boxTo) ==
    Rat(dimensions(boxTo)[1], dimensions(boxFrom)[1])

\* geom.py:210-214: the average of the X and Y scale of two flat boxes
flat_ratio(boxFrom, boxTo) ==
    LET span_from == dimensions(boxFrom)
        span_to == dimensions(boxTo)
        ratio_x == Rat(span_to[1], span_from[1])
        ratio_y == Rat(span_to[2], span_from[2])
    IN  RDiv(RAdd(ratio_x, ratio_y), FromInt(2))

\* geom.py:215-220: rows 0,2,4,6 (the min-z corners) get z = -v, rows
\* 1,3,5,7 get z = v
with_z(coord, v) ==
    Array([k \in 1..8 |->
        <<coord[k][1], coord[k][2], IF k % 2 = 1 THEN RNeg(v) ELSE v>>])

\* geom.py:225-226
pad(x) == Array([k \in 1..Len(x) |-> Append(x[k], FromInt(1))])
unpad(x) == Array([k \in 1..Len(x) |-> SubSeq(x[k], 1, Len(x[k]) - 1)])

\* A faulty fit that swaps the roles of the two boxes
transformBetween_A_swapped(boxFrom, boxTo) ==
    lstsq(pad(np_coords_from_aabb(boxTo)), pad(np_coords_from_aabb(boxFrom)))

\* geom.py:204-231: the matrix A of the fit (when nothing is raised)
transformBetween_A(boxFrom, boxTo) ==
    LET flat == bothFlat(boxFrom, boxTo)
        coord_from == IF flat THEN with_z(np_coords_from_aabb(boxFrom), FromInt(1))
                      ELSE np_coords_from_aabb(boxFrom)
        coord_to == IF flat THEN with_z(np_coords_from_aabb(boxTo),
                                        flat_ratio(boxFrom, boxTo))
                    ELSE np_coords_from_aabb(boxTo)
    IN  lstsq(pad(coord_from), pad(coord_to))

\* geom.py:233: transform(x) = unpad(np.dot(pad(x), A)) for one point x
transform_apply(t, point) ==
    LET x == pad(<<Array([a \in 1..3 |-> FromInt(point[a])])>>)
        image == Array([k \in 1..1 |->
                    Array([j \in 1..4 |-> RDot(x[k], Column(t.A, j))])])
    IN  unpad(image)[1]

---------------------------------------------------------------------------
(* Inputs *)

\* Byte strings: MaxBufLen or fewer bytes cut from a fixed pattern in which
\* neighbouring bytes differ and both signs of a signed scalar occur
SampleBytes == <<1, 128, 0, 255, 2, 127>>

TestBytes(seed, len) ==
    [j \in 1..len |-> SampleBytes[((seed + j - 1) % Len(SampleBytes)) + 1]]

RawBuffers == {TestBytes(seed, len) : seed \in {0, 1, 3}, len \in 0..MaxBufLen}

\* Attributes as an external mesh loader may hand them over: every field free
FreeAttrs ==
    [name : {"vertexPosition"},
     vertexBaseType : {"Byte", "UnsignedByte", "Short", "UnsignedShort", "Int"},
     vertexSize : 0..MaxVertexSize,
     attributeType : {"VertexAttribute"},
     buffer : {1},
     byteStride : 0..MaxStride,
     byteOffset : 0..MaxOffset,
     count : 0..MaxCount]

\* Scalars of each dtype: its extremes and values whose bytes differ
SampleValues(dtype) ==
    CASE dtype = "int8" -> <<-128, 1, -2, 127, 0>>
      [] dtype = "uint8" -> <<255, 1, 128, 0, 7>>
      [] dtype = "int16" -> <<-32768, 258, -2, 32767, 0>>
      [] dtype = "uint16" -> <<65535, 258, 32768, 0, 513>>
      [] dtype = "int32" -> <<-2147483647, 16909060, -2, 2147483647, 0>>
      [] dtype = "int64" -> <<0, 1, 2, 3, 4>>

TestArray(dtype, rows, cols, seed) ==
    [dtype |-> dtype,
     data |-> [r \in 1..rows |-> [c \in 1..cols |->
                 SampleValues(dtype)[((seed + (r - 1) * cols + c - 1) % 5) + 1]]]]

Arrays ==
    {TestArray(d, rows, cols, seed) :
        d \in DTypes, rows \in 0..MaxRows, cols \in 1..MaxCols, seed \in {0, 2}}

AttrSpecs == [name : {"a"}, column : 0..MaxCols, numcols : 0..MaxCols]

\* one or two AttrSpecs (or none)
AttrSpecLists ==
    {<<>>} \cup {<<a>> : a \in AttrSpecs} \cup {<<a, b>> : a \in AttrSpecs, b \in AttrSpecs}

NoArray == [dtype |-> "none", data |-> <<>>]

---------------------------------------------------------------------------
(* Idle values of the state that a specification does not use *)

NoRun == [impl |-> "none", att |-> 0, state |-> "none", out |-> <<>>]

NoTransform == [A |-> <<>>]

NoMapped == [point |-> <<>>, image |-> <<>>]

\* mainwindow.py:23-25: a new AutoResizingStackedWidget, without pages
NoWidget == [k_max_width |-> -1, currentIndex |-> -1, pages |-> <<>>]

\* History of the calls: whether the last call updated the size policy, and
\* the largest size-hint width a page had at any update
NoSeen == [updated |-> FALSE, maxHint |-> -1]

\* list(it) of a caller that drives a generator to its end: once the run has
\* finished (StopIteration or struct.error) the caller holds its tuples
Collected(previous, g) ==
    IF g.state \in {"done", "error"}
    THEN [impl |-> g.impl, att |-> g.att, state |-> g.state, out |-> g.out]
    ELSE previous

---------------------------------------------------------------------------
(* Actions *)

\* attrs = buildVertexAttrs(parent, array, attrspecs)
BuildVertexAttrs ==
    /\ pc = "start"
    /\ IF buildVertexAttrs_raises(array) # ""
       THEN /\ pc' = buildVertexAttrs_raises(array)
            /\ UNCHANGED <<buffers, attrs>>
       ELSE /\ buffers' = Append(buffers,
                 tobytes(array.data,
                         basetype_widths[basetype_numpy_codes_reverse[array.dtype]]))
            /\ attrs' = buildVertexAttrs_attrs(array, attrspecs, Len(buffers) + 1)
            /\ pc' = "built"
    /\ UNCHANGED <<array, attrspecs, it, grp, boxVars, last, tfVars, widgetVars>>

\* it = geom.iterAttr(attrs[n]): calling a generator function runs none of it
CallIterAttr(n) ==
    /\ pc \in {"built", "loaded"}
    /\ it' = NewGen("geom", n)
    /\ last' = Collected(last, it)
    /\ UNCHANGED <<bufVars, pc, grp, boxVars, tfVars, widgetVars>>

\* next(it) on a generator of geom.iterAttr
IterAttrNext ==
    /\ it.impl = "geom"
    /\ it.state \in {"created", "running"}
    /\ it' = iterAttr_next(it)
    /\ UNCHANGED <<bufVars, pc, grp, boxVars, last, tfVars, widgetVars>>

\* it = geomview.iterAttr(attrs[n])
ViewCallIterAttr(n) ==
    /\ pc \in {"built", "loaded"}
    /\ it' = NewGen("geomview", n)
    /\ last' = Collected(last, it)
    /\ UNCHANGED <<bufVars, pc, grp, boxVars, tfVars, widgetVars>>

\* next(it) on a generator of geomview.iterAttr
ViewIterAttrNext ==
    /\ it.impl = "geomview"
    /\ it.state \in {"created", "running"}
    /\ it' = view_iterAttr_next(it)
    /\ UNCHANGED <<bufVars, pc, grp, boxVars, last, tfVars, widgetVars>>

IterActions ==
    \/ \E n \in 1..Len(attrs) : CallIterAttr(n)
    \/ IterAttrNext
    \/ \E n \in 1..Len(attrs) : ViewCallIterAttr(n)
    \/ ViewIterAttrNext

---------------------------------------------------------------------------
(* Decoding of attributes of a mesh loaded elsewhere *)

InitDecode ==
    /\ \E b \in RawBuffers : buffers = <<b>>
    /\ \E a \in FreeAttrs : attrs = <<a>>
    /\ array = NoArray
    /\ attrspecs = <<>>
    /\ pc = "loaded"
    /\ it = NoGen
    /\ grp = NoGrouper
    /\ pts = <<>> /\ aabb = NoBox /\ cit = NoCorners /\ aabb2 = NoBox
    /\ last = NoRun
    /\ transform = NoTransform /\ mapped = NoMapped
    /\ widget = NoWidget /\ seen = NoSeen

NextDecode == IterActions

SpecDecode == InitDecode /\ [][NextDecode]_vars

---------------------------------------------------------------------------
(* Packing an array with buildVertexAttrs and decoding its attributes *)

InitEncode ==
    /\ buffers = <<>>
    /\ attrs = <<>>
    /\ array \in Arrays
    /\ attrspecs \in AttrSpecLists
    /\ pc = "start"
    /\ it = NoGen
    /\ grp = NoGrouper
    /\ pts = <<>> /\ aabb = NoBox /\ cit = NoCorners /\ aabb2 = NoBox
    /\ last = NoRun
    /\ transform = NoTransform /\ mapped = NoMapped
    /\ widget = NoWidget /\ seen = NoSeen

NextEncode == BuildVertexAttrs \/ IterActions

SpecEncode == InitEncode /\ [][NextEncode]_vars

---------------------------------------------------------------------------
(* Packing an index array with buildIndexAttr and decoding its attribute *)

\* flat arrays of every dtype with 0..MaxIndices elements
IndexArrays ==
    {[dtype |-> d,
      data |-> [k \in 1..len |-> SampleValues(d)[((seed + k - 1) % 5) + 1]]] :
        d \in DTypes, len \in 0..MaxIndices, seed \in {0, 2}}

\* attrs = [buildIndexAttr(parent, array)]
BuildIndexAttr ==
    /\ pc = "start"
    /\ IF buildIndexAttr_raises(array) # ""
       THEN /\ pc' = buildIndexAttr_raises(array)
            /\ UNCHANGED <<buffers, attrs>>
       ELSE /\ buffers' = Append(buffers, buildIndexAttr_rawstring(array))
            /\ attrs' = <<buildIndexAttr_attr(array, Len(buffers) + 1)>>
            /\ pc' = "built"
    /\ UNCHANGED <<array, attrspecs, it, grp, boxVars, last, tfVars, widgetVars>>

InitIndex ==
    /\ buffers = <<>>
    /\ attrs = <<>>
    /\ array \in IndexArrays
    /\ attrspecs = <<>>
    /\ pc = "start"
    /\ it = NoGen
    /\ grp = NoGrouper
    /\ pts = <<>> /\ aabb = NoBox /\ cit = NoCorners /\ aabb2 = NoBox
    /\ last = NoRun
    /\ transform = NoTransform /\ mapped = NoMapped
    /\ widget = NoWidget /\ seen = NoSeen

NextIndex == BuildIndexAttr \/ IterActions

SpecIndex == InitIndex /\ [][NextIndex]_vars

---------------------------------------------------------------------------
(* Grouping a flat sequence *)

\* the sequences seed+1, seed+2, ..., seed+len
TestSeq(seed, len) == [k \in 1..len |-> seed + k]

Sequences == {TestSeq(seed, len) : seed \in {0, 10, 20}, len \in 0..MaxSeqLen}

\* grp = geom.grouper(i, n)
CallGrouper(i, n) ==
    /\ pc = "idle"
    /\ grp' = grouper(i, n)
    /\ pc' = "grouping"
    /\ UNCHANGED <<bufVars, it, boxVars, last, tfVars, widgetVars>>

\* next(grp)
GrouperNext ==
    /\ grp.state \in {"created", "running"}
    /\ grp' = zip_longest_next(grp)
    /\ UNCHANGED <<bufVars, pc, it, boxVars, last, tfVars, widgetVars>>

InitGrouper ==
    /\ buffers = <<>> /\ attrs = <<>> /\ array = NoArray /\ attrspecs = <<>>
    /\ pc = "idle"
    /\ it = NoGen
    /\ grp = NoGrouper
    /\ pts = <<>> /\ aabb = NoBox /\ cit = NoCorners /\ aabb2 = NoBox
    /\ last = NoRun
    /\ transform = NoTransform /\ mapped = NoMapped
    /\ widget = NoWidget /\ seen = NoSeen

NextGrouper ==
    \/ \E i \in Sequences, n \in 0..MaxGroup : CallGrouper(i, n)
    \/ GrouperNext

SpecGrouper == InitGrouper /\ [][NextGrouper]_vars

---------------------------------------------------------------------------
(* geomview.grouper over iterators and lists *)

\* grp = geomview.grouper(i, n), i an iterator over or a list of the items
ViewCallGrouper(kind, i, n) ==
    /\ pc = "idle"
    /\ grp' = view_grouper(kind, i, n)
    /\ pc' = "grouping"
    /\ UNCHANGED <<bufVars, it, boxVars, last, tfVars, widgetVars>>

\* next(grp); a caller takes at most MaxSeqLen + 1 groups
ViewGrouperNext ==
    /\ pc = "grouping"
    /\ grp.state \in {"created", "running"}
    /\ Len(grp.out) <= MaxSeqLen
    /\ grp' = view_grouper_next(grp)
    /\ UNCHANGED <<bufVars, pc, it, boxVars, last, tfVars, widgetVars>>

NextViewGrouper ==
    \/ \E kind \in {"iterator", "list"}, i \in Sequences, n \in 0..MaxGroup :
          ViewCallGrouper(kind, i, n)
    \/ ViewGrouperNext

SpecViewGrouper == InitGrouper /\ [][NextViewGrouper]_vars

---------------------------------------------------------------------------
(* Bounding boxes *)

\* Points with integer coordinates; 16777217 = 2^24 + 1 and -16777219 are
\* not float32 values
SamplePoints ==
    {<<0, 0, 0>>, <<-1, 3, 0>>, <<3, -1, 16777217>>, <<16777217, 0, -1>>,
     <<-16777219, 3, 3>>, <<2, 2, -4>>}

RECURSIVE SeqsUpTo(_, _)
SeqsUpTo(S, n) ==
    IF n = 0 THEN {<<>>}
    ELSE LET shorter == SeqsUpTo(S, n - 1)
         IN  shorter \cup {Append(q, x) : q \in {t \in shorter : Len(t) = n - 1}, x \in S}

PointLists == SeqsUpTo(SamplePoints, MaxPoints)

\* A faulty constructor that starts from vec3d() = (0, 0, 0) and folds every
\* point, as geomview.compute_AABB does: it never raises
ConstructAABB_zeroBox ==
    /\ pc = "start"
    /\ aabb' = LET zero == vec3d(0, 0, 0)
                   box == AABB_loop([min |-> zero, max |-> zero, center2 |-> <<>>],
                                    pts, 1)
               IN  [box EXCEPT !.center2 = AABB_center2(box.min, box.max)]
    /\ pc' = "constructed"
    /\ UNCHANGED <<bufVars, it, grp, pts, cit, aabb2, last, tfVars, widgetVars>>

\* aabb = AABB(geom), geom.allVertices() yielding pts
ConstructAABB ==
    /\ pc = "start"
    /\ IF AABB_raises(pts) # ""
       THEN /\ pc' = AABB_raises(pts)
            /\ UNCHANGED aabb
       ELSE /\ aabb' = AABB_init(pts)
            /\ pc' = "constructed"
    /\ UNCHANGED <<bufVars, it, grp, pts, cit, aabb2, last, tfVars, widgetVars>>

\* cit = aabb.iterCorners()
CallIterCorners ==
    /\ pc \in {"constructed", "rebuilt"}
    /\ cit' = NewCorners
    /\ UNCHANGED <<bufVars, pc, it, grp, pts, aabb, aabb2, last, tfVars, widgetVars>>

\* next(cit)
IterCornersNext ==
    /\ cit.state \in {"created", "running"}
    /\ cit' = iterCorners_next(aabb, cit)
    /\ UNCHANGED <<bufVars, pc, it, grp, pts, aabb, aabb2, last, tfVars, widgetVars>>

\* aabb2 = AABB(g), g.allVertices() being aabb.iterCorners()
RebuildFromCorners ==
    /\ pc = "constructed"
    /\ aabb2' = AABB_init(iterCorners_run(aabb, NewCorners))
    /\ pc' = "rebuilt"
    /\ UNCHANGED <<bufVars, it, grp, pts, aabb, cit, last, tfVars, widgetVars>>

InitAABB ==
    /\ buffers = <<>> /\ attrs = <<>> /\ array = NoArray /\ attrspecs = <<>>
    /\ pc = "start"
    /\ it = NoGen
    /\ grp = NoGrouper
    /\ pts \in PointLists
    /\ aabb = NoBox /\ cit = NoCorners /\ aabb2 = NoBox
    /\ last = NoRun
    /\ transform = NoTransform /\ mapped = NoMapped
    /\ widget = NoWidget /\ seen = NoSeen

NextAABB ==
    \/ ConstructAABB
    \/ CallIterCorners
    \/ IterCornersNext
    \/ RebuildFromCorners

SpecAABB == InitAABB /\ [][NextAABB]_vars

---------------------------------------------------------------------------
(* geomview.compute_AABB, geomview.py:93-104, over a geometry whose        *)
(* attributes were built from an array of vertices                         *)

\* geomview.py:61-66: the index of the first vertex attribute named
\* "vertexPosition" in the geometry's attributes, 0 for None
getVertexAttr(atts) ==
    LET found == {n \in 1..Len(atts) :
                     /\ atts[n].name = "vertexPosition"
                     /\ atts[n].attributeType = "VertexAttribute"}
    IN  IF found = {} THEN 0
        ELSE CHOOSE n \in found : \A o \in found : n <= o

\* the for loop of geomview.py:97 drives the generator to its end
RECURSIVE view_iterAttr_run(_)
view_iterAttr_run(g) ==
    IF g.state \in {"done", "error"} THEN g
    ELSE view_iterAttr_run(view_iterAttr_next(g))

\* geomview.py:98-100
compute_AABB_foldMin(minimums, vtx) ==
    <<F32(Min(minimums[1], vtx[1])), F32(Min(minimums[2], vtx[2])),
      F32(Min(minimums[3], vtx[3]))>>

\* geomview.py:101-103
compute_AABB_foldMax(maximums, vtx) ==
    <<F32(Max(maximums[1], vtx[1])), F32(Max(maximums[2], vtx[2])),
      F32(Max(maximums[3], vtx[3]))>>

\* geomview.py:97-103 from vertex k on
RECURSIVE compute_AABB_loop(_, _, _)
compute_AABB_loop(box, vertices, k) ==
    IF k > Len(vertices) THEN box
    ELSE compute_AABB_loop(
             [min |-> compute_AABB_foldMin(box.min, vertices[k]),
              max |-> compute_AABB_foldMax(box.max, vertices[k])],
             vertices, k + 1)

\* The exception compute_AABB raises, or "" if it returns: iterAttr(None),
\* a short read of the decoder, or a vertex of fewer than 3 components
compute_AABB_raises(atts) ==
    LET n == getVertexAttr(atts)
        run == view_iterAttr_run(NewGen("geomview", n))
    IN  IF n = 0 THEN "AttributeError"
        ELSE IF run.out # <<>> /\ Len(run.out[1]) < 3 THEN "IndexError"
        ELSE IF run.state = "error" THEN "struct.error"
        ELSE ""

\* geomview.py:95-96, 104: minimums and maximums start as vec3d(), the null
\* vector, and are returned as the pair [min, max]
compute_AABB(atts) ==
    LET run == view_iterAttr_run(NewGen("geomview", getVertexAttr(atts)))
    IN  compute_AABB_loop([min |-> vec3d(0, 0, 0), max |-> vec3d(0, 0, 0)],
                          run.out, 1)

\* Vertices with small integer coordinates, some on one side of 0 only
SampleVertices ==
    {<<1, 1, 1>>, <<2, 2, 2>>, <<-1, 3, 0>>, <<-2, -3, -4>>, <<3, -1, 5>>}

VertexLists == SeqsUpTo(SampleVertices, MaxPoints) \ {<<>>}

\* aabb = compute_AABB(geom), geom holding the attributes built before
ComputeAABB ==
    /\ pc = "built"
    /\ IF compute_AABB_raises(attrs) # ""
       THEN /\ pc' = compute_AABB_raises(attrs)
            /\ UNCHANGED aabb
       ELSE /\ aabb' = compute_AABB(attrs)
            /\ pc' = "computed"
    /\ UNCHANGED <<bufVars, it, grp, pts, cit, aabb2, last, tfVars, widgetVars>>

InitViewAABB ==
    /\ buffers = <<>> /\ attrs = <<>>
    /\ \E vertices \in VertexLists : array = [data |-> vertices, dtype |-> "int32"]
    /\ \E name \in {"vertexPosition", "vertexNormal"} :
           attrspecs = <<[name |-> name, column |-> 0, numcols |-> 3]>>
    /\ pc = "start"
    /\ it = NoGen
    /\ grp = NoGrouper
    /\ pts = <<>> /\ aabb = NoBox /\ cit = NoCorners /\ aabb2 = NoBox
    /\ last = NoRun
    /\ transform = NoTransform /\ mapped = NoMapped
    /\ widget = NoWidget /\ seen = NoSeen

NextViewAABB ==
    \/ BuildVertexAttrs
    \/ ComputeAABB

SpecViewAABB == InitViewAABB /\ [][NextViewAABB]_vars

---------------------------------------------------------------------------
(* mainwindow.AutoResizingStackedWidget, mainwindow.py:16-45.  The widget  *)
(* is the record [k_max_width, currentIndex, pages]; a page is the record  *)
(*   [hint, minimumWidth, vPolicy]: the width of its sizeHint(), the width *)
(*   last handed to its setMinimumSize (0 for a new widget; Qt itself      *)
(*   stores a negative width as 0) and its vertical size policy.           *)
(* adjustSize() changes the geometry only, which is not part of the model. *)

\* the width of a size hint; -1 is that of an invalid QSize
HintWidths == -1..MaxWidth

NewPage(hint) == [hint |-> hint, minimumWidth |-> 0, vPolicy |-> "Preferred"]

\* mainwindow.py:32: max() over the pages' hint widths (of a non-empty stack)
updateSizePolicy_max_width(w) ==
    CHOOSE m \in {w.pages[x].hint : x \in 1..Len(w.pages)} :
        \A x \in 1..Len(w.pages) : m >= w.pages[x].hint

\* A faulty update that forgets the widths seen before
updateSizePolicy_k_max_width_latest(w) ==
    updateSizePolicy_max_width(w)

\* mainwindow.py:33
updateSizePolicy_k_max_width(w) ==
    Max(w.k_max_width, updateSizePolicy_max_width(w))

\* mainwindow.py:27-38: _updateSizePolicy(current_idx) on a non-empty stack;
\* current_idx and page indices are 0-based
updateSizePolicy(w, current_idx) ==
    LET k == updateSizePolicy_k_max_width(w)
    IN  [w EXCEPT !.k_max_width = k,
                  !.pages = [page_idx \in 1..Len(w.pages) |->
                      [w.pages[page_idx] EXCEPT
                          !.minimumWidth = k,
                          !.vPolicy = IF page_idx - 1 = current_idx
                                      THEN "Maximum" ELSE "Ignored"]]]

\* mainwindow.py:42: whether setCurrentIndex(idx) updates the size policy
setCurrentIndex_updates(w, idx) ==
    w.k_max_width < 0 \/ idx # w.currentIndex

\* QStackedWidget.setCurrentIndex ignores an index that names no page
super_setCurrentIndex(w, idx) ==
    IF idx >= 0 /\ idx < Len(w.pages) THEN [w EXCEPT !.currentIndex = idx] ELSE w

\* QStackedWidget.addWidget(page): the first page becomes the current one
AddWidget(hint) ==
    /\ pc \in {"shown", "ValueError"}
    /\ Len(widget.pages) < MaxPages
    /\ widget' = [widget EXCEPT
                     !.pages = Append(widget.pages, NewPage(hint)),
                     !.currentIndex = IF widget.pages = <<>> THEN 0
                                      ELSE widget.currentIndex]
    /\ seen' = [seen EXCEPT !.updated = FALSE]
    /\ pc' = "shown"
    /\ UNCHANGED <<bufVars, it, grp, boxVars, last, tfVars>>

\* the content of page x changes, and with it the width of its size hint
ChangeSizeHint(x, hint) ==
    /\ pc \in {"shown", "ValueError"}
    /\ x \in 1..Len(widget.pages)
    /\ hint # widget.pages[x].hint
    /\ widget' = [widget EXCEPT !.pages[x].hint = hint]
    /\ seen' = [seen EXCEPT !.updated = FALSE]
    /\ pc' = "shown"
    /\ UNCHANGED <<bufVars, it, grp, boxVars, last, tfVars>>

\* widget.setCurrentIndex(idx), mainwindow.py:40-45; max() of no widths
\* (mainwindow.py:32, a stack without pages) raises ValueError
SetCurrentIndex(idx) ==
    /\ pc \in {"shown", "ValueError"}
    /\ IF setCurrentIndex_updates(widget, idx)
       THEN IF widget.pages = <<>>
            THEN /\ pc' = "ValueError"
                 /\ seen' = [seen EXCEPT !.updated = FALSE]
                 /\ UNCHANGED widget
            ELSE /\ widget' = super_setCurrentIndex(updateSizePolicy(widget, idx), idx)
                 /\ seen' = [updated |-> TRUE,
                             maxHint |-> Max(seen.maxHint,
                                             updateSizePolicy_max_width(widget))]
                 /\ pc' = "shown"
       ELSE /\ widget' = super_setCurrentIndex(widget, idx)
            /\ seen' = [seen EXCEPT !.updated = FALSE]
            /\ pc' = "shown"
    /\ UNCHANGED <<bufVars, it, grp, boxVars, last, tfVars>>

InitWidget ==
    /\ buffers = <<>> /\ attrs = <<>> /\ array = NoArray /\ attrspecs = <<>>
    /\ pc = "shown"
    /\ it = NoGen
    /\ grp = NoGrouper
    /\ pts = <<>> /\ aabb = NoBox /\ cit = NoCorners /\ aabb2 = NoBox
    /\ last = NoRun
    /\ transform = NoTransform /\ mapped = NoMapped
    /\ widget = NoWidget /\ seen = NoSeen

NextWidget ==
    \/ \E hint \in HintWidths : AddWidget(hint)
    \/ \E x \in 1..MaxPages, hint \in HintWidths : ChangeSizeHint(x, hint)
    \/ \E idx \in -1..MaxPages : SetCurrentIndex(idx)

SpecWidget == InitWidget /\ [][NextWidget]_vars

---------------------------------------------------------------------------
(* Fitting one box onto another *)

\* Opposite corners of the boxes; those with z = 0 give flat boxes
BoxCorners ==
    {<<0, 0, 0>>, <<2, 4, 0>>, <<4, 8, 0>>, <<0, 4, 0>>, <<3, 0, 0>>,
     <<-1, -1, -1>>, <<1, 1, 1>>, <<-2, -3, -4>>, <<2, 3, 4>>, <<1, 4, 1>>}

SampleBoxes == {AABB_init(<<p, q>>) : p \in BoxCorners, q \in BoxCorners}

QueryPoints == {<<1, 1, 1>>, <<0, 0, 0>>, <<3, -2, 5>>}

\* transform = transformBetween(aabb, aabb2)
TransformBetween ==
    /\ pc = "start"
    /\ IF transformBetween_raises(aabb, aabb2) # ""
       THEN /\ pc' = transformBetween_raises(aabb, aabb2)
            /\ UNCHANGED transform
       ELSE /\ transform' = [A |-> transformBetween_A(aabb, aabb2)]
            /\ pc' = "fitted"
    /\ UNCHANGED <<bufVars, it, grp, boxVars, last, mapped, widgetVars>>

\* transform(np.array([point]))
ApplyTransform(point) ==
    /\ pc = "fitted"
    /\ mapped' = [point |-> point, image |-> transform_apply(transform, point)]
    /\ UNCHANGED <<bufVars, pc, it, grp, boxVars, last, transform, widgetVars>>

InitTransform ==
    /\ buffers = <<>> /\ attrs = <<>> /\ array = NoArray /\ attrspecs = <<>>
    /\ pc = "start"
    /\ it = NoGen
    /\ grp = NoGrouper
    /\ pts = <<>> /\ cit = NoCorners
    /\ aabb \in SampleBoxes
    /\ aabb2 \in SampleBoxes
    /\ last = NoRun
    /\ transform = NoTransform /\ mapped = NoMapped
    /\ widget = NoWidget /\ seen = NoSeen

\* the points a caller maps: the corners of boxFrom and some others
Corners(box) == {iterCorners_point(box, k) : k \in 0..7}

NextTransform ==
    \/ TransformBetween
    \/ \E point \in QueryPoints \cup Corners(aabb) : ApplyTransform(point)

SpecTransform == InitTransform /\ [][NextTransform]_vars

---------------------------------------------------------------------------
(* Claims about decoding *)

\* The descriptor's implied end of read, spec section 3:
\* byteOffset + byteStride * (count - 1) + vertexSize * width
ReadEnd(att) ==
    att.byteOffset + att.byteStride * (att.count - 1)
        + att.vertexSize * basetype_widths[att.vertexBaseType]

\* Every read of the descriptor lies inside its buffer (none, if count = 0)
InBounds(att) ==
    att.count = 0 \/ ReadEnd(att) <= Len(buffers[att.buffer])

\* The scalar held by the width(baseType) bytes that start at byte `pos`
ScalarAt(att, pos) ==
    LET w == basetype_widths[att.vertexBaseType]
    IN  UnpackScalar(basetype_struct_codes[att.vertexBaseType],
                     SubSeq(buffers[att.buffer], pos + 1, pos + w))

\* Tuple i (0-based) as the claims describe it: `n` scalars from consecutive
\* slots starting at byteOffset + i * stride
TupleAt(att, i, stride, n) ==
    [j \in 1..n |->
        ScalarAt(att, att.byteOffset + i * stride
                        + (j - 1) * basetype_widths[att.vertexBaseType])]

\* C1: for an attribute with byteStride > 0 and vertexSize >= 1 whose read
\* range lies inside the buffer, iterAttr (of geom.py and of geomview.py)
\* never fails, yields exactly count tuples, and tuple i holds the vertexSize
\* scalars of the consecutive slots starting at byteOffset + i * byteStride.
C1_StridedDecode ==
    (it.impl \in {"geom", "geomview"}) =>
        LET att == attrs[it.att]
        IN  (att.byteStride > 0 /\ att.vertexSize >= 1 /\ InBounds(att)) =>
                /\ it.state # "error"
                /\ Len(it.out) <= att.count
                /\ it.state = "done" => Len(it.out) = att.count
                /\ \A i \in 1..Len(it.out) :
                      it.out[i] = TupleAt(att, i - 1, att.byteStride, att.vertexSize)

\* C1 witness: an interleaved two-component attribute of two elements (one
\* byte of padding between them) has been decoded to the end
C1_Witness ==
    /\ it.impl = "geom"
    /\ it.state = "done"
    /\ attrs[it.att].count = 2
    /\ attrs[it.att].vertexSize = 2
    /\ attrs[it.att].byteStride = 3
    /\ attrs[it.att].byteOffset = 1
    /\ InBounds(attrs[it.att])
    /\ Len(it.out) = 2

\* C2 (as claimed, for descriptors with byteStride > 0, vertexSize >= 1 and
\* count >= 1): when the descriptor's read range exceeds the buffer,
\* geom.iterAttr yields no tuple at all and does not run to completion
C2_NoTupleWhenOutOfBounds ==
    LET att == attrs[it.att]
    IN  (/\ it.impl = "geom"
         /\ att.byteStride > 0 /\ att.vertexSize >= 1 /\ att.count >= 1
         /\ ReadEnd(att) > Len(buffers[att.buffer])) =>
            /\ it.out = <<>>
            /\ it.state # "done"

---------------------------------------------------------------------------
(* Claims about buildVertexAttrs *)

\* Width in bytes of a scalar of the array's dtype
DTypeWidth(dtype) ==
    CASE dtype \in {"int8", "uint8"} -> 1
      [] dtype \in {"int16", "uint16"} -> 2
      [] dtype \in {"int32", "uint32"} -> 4

\* The AttrSpecs' column ranges are non-empty, lie inside the array's columns
\* and cover every column exactly once
CoversExactlyOnce(specs, cols) ==
    /\ \A n \in 1..Len(specs) :
          specs[n].numcols >= 1 /\ specs[n].column + specs[n].numcols <= cols
    /\ \A c \in 0..(cols - 1) :
          Cardinality({n \in 1..Len(specs) :
              specs[n].column <= c /\ c < specs[n].column + specs[n].numcols}) = 1

\* C3: round trip.  For an array with at least one row and AttrSpecs that
\* cover its columns exactly once, geom.iterAttr on any attribute returned by
\* buildVertexAttrs never fails and yields, row by row, exactly
\* data[r][column .. column + numcols - 1].
C3_RoundTrip ==
    (pc = "built" /\ it.impl = "geom"
        /\ CoversExactlyOnce(attrspecs, Len(array.data[1]))) =>
        LET asp == attrspecs[it.att]
        IN  /\ it.state # "error"
            /\ Len(it.out) <= Len(array.data)
            /\ it.state = "done" => Len(it.out) = Len(array.data)
            /\ \A r \in 1..Len(it.out) :
                  it.out[r] = SubSeq(array.data[r], asp.column + 1,
                                     asp.column + asp.numcols)

\* C3 witness: the second of two attributes that split a two-row, two-column
\* int16 array has been decoded to the end
C3_Witness ==
    /\ pc = "built"
    /\ array.dtype = "int16"
    /\ Len(array.data) = 2
    /\ Len(attrspecs) = 2
    /\ CoversExactlyOnce(attrspecs, Len(array.data[1]))
    /\ it.impl = "geom" /\ it.att = 2 /\ it.state = "done"
    /\ attrspecs[2].column = 1
    /\ Len(it.out) = 2

\* C4: the attributes of one buildVertexAttrs call, one per AttrSpec, share
\* the buffer (the one holding the array's bytes), the base type, the count
\* (the number of rows) and the byteStride totalColumns * width; each has
\* byteOffset = column * width and vertexSize = numcols.
C4_SharedLayout ==
    (pc = "built") =>
        LET w == DTypeWidth(array.dtype)
        IN  /\ Len(attrs) = Len(attrspecs)
            /\ Len(buffers) = 1
            /\ Len(buffers[1]) = Len(array.data) * Len(array.data[1]) * w
            /\ \A n \in 1..Len(attrs) :
                  /\ attrs[n].buffer = 1
                  /\ attrs[n].vertexBaseType = attrs[1].vertexBaseType
                  /\ basetype_widths[attrs[n].vertexBaseType] = w
                  /\ attrs[n].count = Len(array.data)
                  /\ attrs[n].byteStride = Len(array.data[1]) * w
                  /\ attrs[n].byteOffset = attrspecs[n].column * w
                  /\ attrs[n].vertexSize = attrspecs[n].numcols

\* C4 witness: two attributes were built from a two-column uint16 array, the
\* second one starting at column 1
C4_Witness ==
    /\ pc = "built"
    /\ array.dtype = "uint16"
    /\ Len(array.data[1]) = 2
    /\ Len(attrs) = 2
    /\ attrspecs[2].column = 1
    /\ attrs[2].byteOffset = 2

---------------------------------------------------------------------------
(* Claims about geom.grouper *)

\* C5: geom.grouper(seq, n) with n >= 1 pads: it yields ceil(L/n) groups of
\* exactly n entries; in order the entries are the items of seq followed, in
\* the last group only, by n - L mod n fill values when n does not divide L.
C5_GrouperPads ==
    (grp.state # "none" /\ grp.n >= 1) =>
        LET L == Len(grp.src)
            n == grp.n
            padded == grp.src \o [k \in 1..((n - (L % n)) % n) |-> PAD]
        IN  /\ Len(grp.out) * n <= Len(padded)
            /\ grp.state = "done" => Len(grp.out) = (L + n - 1) \div n
            /\ \A g \in 1..Len(grp.out) :
                  grp.out[g] = SubSeq(padded, (g - 1) * n + 1, g * n)

\* C5 witness: grouper([1,2,3,4,5], 2) has yielded (1,2), (3,4), (5,PAD) and
\* is exhausted
C5_Witness ==
    /\ grp.state = "done"
    /\ grp.src = <<1, 2, 3, 4, 5>>
    /\ grp.n = 2
    /\ grp.out = << <<1, 2>>, <<3, 4>>, <<5, PAD>> >>

---------------------------------------------------------------------------
(* Claims about geom.AABB *)

Axes == 1..3

\* The least / greatest coordinate of the points on one axis
MinOver(points, a) ==
    CHOOSE m \in {points[i][a] : i \in 1..Len(points)} :
        \A i \in 1..Len(points) : m <= points[i][a]

MaxOver(points, a) ==
    CHOOSE m \in {points[i][a] : i \in 1..Len(points)} :
        \A i \in 1..Len(points) : m >= points[i][a]

\* Every coordinate of the points is a float32 value
Float32Points(points) ==
    \A i \in 1..Len(points) : \A a \in Axes : F32(points[i][a]) = points[i][a]

\* C6 (as claimed): for every non-empty point sequence each component of
\* AABB.min (max) equals the minimum (maximum) of that component over all
\* points, so every point lies inside the box.
C6_ExactMinMax ==
    (pc = "constructed") =>
        \A a \in Axes :
            /\ aabb.min[a] = MinOver(pts, a)
            /\ aabb.max[a] = MaxOver(pts, a)
            /\ \A i \in 1..Len(pts) :
                  aabb.min[a] <= pts[i][a] /\ pts[i][a] <= aabb.max[a]

\* C6 (amended): each component of AABB.min (max) is the single-precision
\* rounding of the minimum (maximum) of that component over all points; when
\* all coordinates are float32 values it is that minimum (maximum) itself and
\* every point lies inside the box.
C6_RoundedMinMax ==
    (pc = "constructed") =>
        \A a \in Axes :
            /\ aabb.min[a] = F32(MinOver(pts, a))
            /\ aabb.max[a] = F32(MaxOver(pts, a))
            /\ Float32Points(pts) =>
                  /\ aabb.min[a] = MinOver(pts, a)
                  /\ aabb.max[a] = MaxOver(pts, a)
                  /\ \A i \in 1..Len(pts) :
                        aabb.min[a] <= pts[i][a] /\ pts[i][a] <= aabb.max[a]

\* C6 witness: a box of three float32 points whose min and max both differ
\* from the first point on the y axis, so the fold has moved both
C6_Witness ==
    /\ pc = "constructed"
    /\ Len(pts) = 3
    /\ Float32Points(pts)
    /\ aabb.min[2] < pts[1][2]
    /\ aabb.max[2] > pts[1][2]

\* C7: constructing an AABB from a source without points fails (next(it)
\* raises StopIteration out of __init__): no AABB object is produced, in
\* particular no box with min = max = (0, 0, 0).
C7_EmptyInputFails ==
    (pts = <<>> /\ pc # "start") =>
        /\ pc = "StopIteration"
        /\ aabb = NoBox
        /\ aabb2 = NoBox

\* C7 witness: the constructor was called on an empty source and raised
C7_Witness ==
    /\ pts = <<>>
    /\ pc = "StopIteration"

\* The reorderings (permutations) of a sequence
Reorderings(points) ==
    LET n == Len(points)
        bij == {f \in [1..n -> 1..n] : \A i, j \in 1..n : f[i] = f[j] => i = j}
    IN  {[i \in 1..n |-> points[f[i]]] : f \in bij}

\* C8: the bounding box is order-independent: constructing the AABB from any
\* permutation of a non-empty point sequence gives the same min, max and
\* center.
C8_OrderIndependent ==
    (pc = "constructed") =>
        \A q \in Reorderings(pts) :
            /\ AABB_init(q).min = aabb.min
            /\ AABB_init(q).max = aabb.max
            /\ AABB_init(q).center2 = aabb.center2

\* C8 witness: a box of three pairwise different points
C8_Witness ==
    /\ pc = "constructed"
    /\ Len(pts) = 3
    /\ Cardinality(Reorderings(pts)) = 6

\* bit b (value 1, 2 or 4) of k is set
BitSet(k, b) == (k \div b) % 2 = 1

\* C9 (as claimed): the k-th corner has x = max.x iff bit 2 of k is set,
\* y = max.y iff bit 1 is set, z = max.z iff bit 0 is set, for every box.
C9_CornerIffBit ==
    (cit.state # "none") =>
        \A k \in 0..(Len(cit.out) - 1) :
            /\ (cit.out[k + 1][1] = aabb.max[1]) <=> BitSet(k, 4)
            /\ (cit.out[k + 1][2] = aabb.max[2]) <=> BitSet(k, 2)
            /\ (cit.out[k + 1][3] = aabb.max[3]) <=> BitSet(k, 1)

\* C9 (amended): iterCorners yields exactly 8 points, the k-th (k = 0..7)
\* having x = max.x if bit 2 of k is set and x = min.x otherwise, y likewise
\* by bit 1 and z by bit 0 (x slowest, z fastest), for every box.
C9_CornerOrder ==
    (cit.state # "none") =>
        /\ Len(cit.out) <= 8
        /\ cit.state = "done" => Len(cit.out) = 8
        /\ \A k \in 0..(Len(cit.out) - 1) :
              cit.out[k + 1] =
                  << IF BitSet(k, 4) THEN aabb.max[1] ELSE aabb.min[1],
                     IF BitSet(k, 2) THEN aabb.max[2] ELSE aabb.min[2],
                     IF BitSet(k, 1) THEN aabb.max[3] ELSE aabb.min[3] >>

\* C9 witness: all corners of a box that is flat on the z axis only have
\* been yielded
C9_Witness ==
    /\ cit.state = "done"
    /\ Len(cit.out) = 8
    /\ aabb.min[3] = aabb.max[3]
    /\ aabb.min[1] < aabb.max[1]
    /\ aabb.min[2] < aabb.max[2]

\* C10: an AABB built from the 8 points of iterCorners(box) has the same
\* min and max as box.
C10_CornersReproduceBox ==
    (pc = "rebuilt") =>
        /\ aabb2.min = aabb.min
        /\ aabb2.max = aabb.max

\* C10 witness: a box with extent on every axis has been rebuilt from its
\* corners
C10_Witness ==
    /\ pc = "rebuilt"
    /\ \A a \in Axes : aabb.min[a] < aabb.max[a]
    /\ aabb2 # NoBox


---------------------------------------------------------------------------
(* Claims about transformBetween *)

Flat(box) == box.min[3] = 0 /\ box.max[3] = 0

Extent(box, axis) == box.max[axis] - box.min[axis]

\* the image of coordinate c under the fit of [min, max] of boxFrom onto
\* [min, max] of boxTo along one axis with extent in boxFrom
AxisFit(boxFrom, boxTo, axis, c) ==
    RAdd(FromInt(boxTo.min[axis]),
         RMul(Rat(Extent(boxTo, axis), Extent(boxFrom, axis)),
              FromInt(c - boxFrom.min[axis])))

\* C11: when both boxes are flat at z = 0 and boxFrom has extent in x and
\* y, the transform maps a point's z to ratio * z, where ratio is the
\* average of the x scale and the y scale, and maps x and y by the fit of
\* box onto box.
C11_FlatnessCorrection ==
    (/\ pc = "fitted" /\ mapped # NoMapped
     /\ Flat(aabb) /\ Flat(aabb2)
     /\ Extent(aabb, 1) # 0 /\ Extent(aabb, 2) # 0)
    => LET ratio == RDiv(RAdd(Rat(Extent(aabb2, 1), Extent(aabb, 1)),
                              Rat(Extent(aabb2, 2), Extent(aabb, 2))),
                         FromInt(2))
       IN  /\ mapped.image[3] = RMul(ratio, FromInt(mapped.point[3]))
           /\ mapped.image[1] = AxisFit(aabb, aabb2, 1, mapped.point[1])
           /\ mapped.image[2] = AxisFit(aabb, aabb2, 2, mapped.point[2])

\* (1,1,1) maps to (2,2,2) between the flat boxes (0,0,0)-(2,4,0) and
\* (0,0,0)-(4,8,0)
C11_Witness ==
    /\ pc = "fitted"
    /\ aabb.min = <<0, 0, 0>> /\ aabb.max = <<2, 4, 0>>
    /\ aabb2.min = <<0, 0, 0>> /\ aabb2.max = <<4, 8, 0>>
    /\ mapped.point = <<1, 1, 1>>
    /\ mapped.image = <<FromInt(2), FromInt(2), FromInt(2)>>

NonDegenerate(box) == \A axis \in 1..3 : Extent(box, axis) # 0

\* C12: between two boxes with extent on all three axes, the transform
\* maps the i-th corner of boxFrom onto the i-th corner of boxTo.
C12_CornersOntoCorners ==
    (/\ pc = "fitted" /\ mapped # NoMapped
     /\ NonDegenerate(aabb) /\ NonDegenerate(aabb2))
    => \A k \in 0..7 :
           mapped.point = iterCorners_point(aabb, k)
           => mapped.image = [a \in 1..3 |-> FromInt(iterCorners_point(aabb2, k)[a])]

\* corner 2 of the cube (-1,-1,-1)-(1,1,1) mapped onto corner 2 of the box
\* (-2,-3,-4)-(2,3,4)
C12_Witness ==
    /\ pc = "fitted"
    /\ aabb.min = <<-1, -1, -1>> /\ aabb.max = <<1, 1, 1>>
    /\ aabb2.min = <<-2, -3, -4>> /\ aabb2.max = <<2, 3, 4>>
    /\ mapped.point = <<-1, 1, -1>>
    /\ mapped.image = <<FromInt(-2), FromInt(3), FromInt(-4)>>

\* C13: transformBetween returns a transform for every pair of boxes, also
\* when boxFrom has no extent in x or in y: it never raises.
C13_NeverRaises ==
    (Extent(aabb, 1) = 0 \/ Extent(aabb, 2) = 0) => pc \in {"start", "fitted"}


---------------------------------------------------------------------------
(* Claims about iterating an attribute again *)

---------------------------------------------------------------------------
(* Claims about the layout buildVertexAttrs hands out *)

\* C16: every attribute buildVertexAttrs returns reads inside its buffer,
\* byteOffset + byteStride * (count - 1) + vertexSize * width <= buffer
\* length, whatever columns its AttrSpec names (here: specs of at least
\* one column that start at a column of the array).
C16_AttrsInBounds ==
    (pc = "built") =>
        \A n \in 1..Len(attrs) :
            (attrspecs[n].numcols >= 1 /\ attrspecs[n].column < Len(array.data[1]))
            => ReadEnd(attrs[n]) <= Len(buffers[attrs[n].buffer])


---------------------------------------------------------------------------
(* Claims about tightly packed attributes and about the two decoders *)

\* C17: for a vertex attribute with byteStride = 0 and vertexSize c >= 2
\* whose count elements of c * width bytes lie inside the buffer, tuple i
\* is read at byteOffset + i * c * width, so that consecutive tuples do not
\* overlap.
C17_TightlyPacked ==
    (it.impl \in {"geom", "geomview"}) =>
        LET att == attrs[it.att]
            step == att.vertexSize * basetype_widths[att.vertexBaseType]
        IN  (/\ att.attributeType = "VertexAttribute"
             /\ att.byteStride = 0 /\ att.vertexSize >= 2
             /\ att.byteOffset + step * att.count <= Len(buffers[att.buffer]))
            => \A i \in 1..Len(it.out) :
                   it.out[i] = TupleAt(att, i - 1, step, att.vertexSize)


\* Every read lies inside the buffer when the elements are taken at the
\* stride the decoders use (byteStride, or width(baseType) when it is 0)
InBoundsAtStride(att) ==
    \/ att.count = 0
    \/ att.byteOffset + iterAttr_byteStride(att) * (att.count - 1)
           + att.vertexSize * basetype_widths[att.vertexBaseType]
         <= Len(buffers[att.buffer])

\* C18: a run of geomview.iterAttr and a run of geom.iterAttr on the same
\* in-bounds descriptor with vertexSize >= 1 end with the same tuples in
\* the same order; with vertexSize = 0 the tuples of geom.iterAttr have one
\* component and those of geomview.iterAttr have width(baseType) components
\* (the first of which is the one geom.iterAttr reads).
C18_SameDecoding ==
    (/\ {it.impl, last.impl} = {"geom", "geomview"}
     /\ it.state \in {"done", "error"} /\ last.att = it.att)
    => LET att == attrs[it.att]
           g == IF it.impl = "geom" THEN it.out ELSE last.out
           v == IF it.impl = "geomview" THEN it.out ELSE last.out
       IN  /\ (att.vertexSize >= 1 /\ InBoundsAtStride(att))
              => (it.out = last.out /\ it.state = "done" /\ last.state = "done")
           /\ att.vertexSize = 0
              => /\ \A i \in 1..Len(g) : Len(g[i]) = 1
                 /\ \A i \in 1..Len(v) :
                       Len(v[i]) = basetype_widths[att.vertexBaseType]
                 /\ \A i \in 1..Min(Len(g), Len(v)) : v[i][1] = g[i][1]

\* both decoders have run to the end over two elements of two components
C18_Witness ==
    /\ it.impl = "geomview" /\ it.state = "done"
    /\ last.impl = "geom" /\ last.state = "done" /\ last.att = it.att
    /\ attrs[it.att].vertexSize = 2 /\ attrs[it.att].vertexBaseType = "Short"
    /\ InBoundsAtStride(attrs[it.att])
    /\ Len(it.out) = 1 /\ it.out = last.out


---------------------------------------------------------------------------
(* Claims about geomview.grouper *)

Remaining(z) == Len(z.src) - z.pos

\* C21: geomview.grouper(i, n) terminates for every finite input i, a
\* one-shot iterator or a container such as a list: every next() call that
\* yields a group consumes input, so that fewer items remain after it and
\* the calls cannot go on for ever.
C21_GrouperTerminates ==
    [][ (pc = "grouping" /\ pc' = "grouping" /\ Len(grp'.out) > Len(grp.out))
        => Remaining(grp') < Remaining(grp) ]_vars


---------------------------------------------------------------------------
(* Claims about geomview.compute_AABB *)

\* C19: for a geometry with at least one vertex, each component of the
\* minimums (maximums) compute_AABB returns is the minimum (maximum) of
\* that component over the vertices, whatever the signs of the coordinates.
C19_MinimalBox ==
    (pc = "computed") =>
        \A a \in Axes :
            /\ aabb.min[a] = MinOver(array.data, a)
            /\ aabb.max[a] = MaxOver(array.data, a)


---------------------------------------------------------------------------
(* Claims about AutoResizingStackedWidget *)

\* C15: over setCurrentIndex calls interleaved with changes of the pages'
\* size-hint widths, k_max_width never decreases, and a call that updates
\* the size policy hands k_max_width to every page as its minimum width,
\* k_max_width being at least the largest size-hint width a page had at any
\* update so far.
C15_NeverShrinks ==
    [][ /\ widget'.k_max_width >= widget.k_max_width
        /\ seen'.updated =>
              /\ \A x \in 1..Len(widget'.pages) :
                     widget'.pages[x].minimumWidth = widget'.k_max_width
              /\ widget'.k_max_width >= seen'.maxHint
              /\ \A x \in 1..Len(widget.pages) :
                     widget'.k_max_width >= widget.pages[x].hint ]_vars

\* an update after the widest page shrank from 2 to 0: k_max_width stays 2
C15_Witness ==
    /\ seen.updated /\ seen.maxHint = 2
    /\ widget.k_max_width = 2
    /\ Len(widget.pages) = 2
    /\ \A x \in 1..2 : widget.pages[x].hint <= 0 /\ widget.pages[x].minimumWidth = 2


---------------------------------------------------------------------------
(* Claims about buildIndexAttr *)

\* C22: the attribute buildIndexAttr returns for a non-empty flat array a
\* has count a.size and byteStride 0, and geom.iterAttr decodes it at the
\* stride width(baseType) into exactly a.size tuples of one component, the
\* elements of a in order.
C22_IndexRoundTrip ==
    (pc = "built" /\ array_size(array) >= 1) =>
        /\ Len(attrs) = 1
        /\ attrs[1].count = array_size(array)
        /\ attrs[1].byteStride = 0
        /\ attrs[1].attributeType = "IndexAttribute"
        /\ (it.impl = "geom") =>
              /\ it.state # "error"
              /\ Len(it.out) <= array_size(array)
              /\ it.state = "done" => Len(it.out) = array_size(array)
              /\ \A k \in 1..Len(it.out) :
                    /\ it.out[k] = <<array.data[k]>>
                    /\ it.out[k] = TupleAt(attrs[1], k - 1,
                                           basetype_widths[attrs[1].vertexBaseType], 1)

\* the three elements of an int16 index array have been decoded
C22_Witness ==
    /\ pc = "built"
    /\ array.dtype = "int16" /\ array_size(array) = 3
    /\ it.impl = "geom" /\ it.state = "done"
    /\ it.out = <<<<array.data[1]>>, <<array.data[2]>>, <<array.data[3]>>>>
    /\ array.data[1] # array.data[2]

===========================================================================
